---- MODULE Spec2Model ----
(***************************************************************************)
(* tv-tracker: the task-lifecycle reconciliation engine.                   *)
(*                                                                         *)
(* The store (tv_shows, tasks, episodes, tmdb_cache) is shared by every    *)
(* caller.  Each SQL statement is one atomic step; a database transaction  *)
(* (Begin .. Commit) is one atomic step as well, its writes invisible to   *)
(* other connections until the commit.  A caller is a process that runs    *)
(* one service call at a time: TaskGenerator.SyncAll,                      *)
(* ShowSyncService.RefreshShow, TaskBoardService.CompleteTask or           *)
(* TaskBoardService.PostponeTask.                                          *)
(*                                                                         *)
(* Text is a sequence of one-character strings, so that formatting,        *)
(* parsing and the LIKE / GLOB patterns are computed on characters.        *)
(***************************************************************************)
EXTENDS Integers, Sequences, FiniteSets, TLC

\* ------------------------------------------------------------------ bounds
\* catalog (TMDB) ids are 1..MaxShows
MaxShows == 2
\* tasks.id is AUTOINCREMENT; no task is inserted once the counter passes MaxTasks
MaxTasks == 3
\* the clock advances from 0 to MaxNow ticks
MaxNow == 2
\* clock ticks in one calendar day
TicksPerDay == 2
\* callers that may be inside a service call at the same time
NumProcs == 2

TMDBIDs == 1..MaxShows
TaskIDs == 1..MaxTasks
Procs == 1..NumProcs

\* ------------------------------------------------------------------ text
Digit == <<"0", "1", "2", "3", "4", "5", "6", "7", "8", "9">>

IsDigit(c) == \E i \in 1..10 : Digit[i] = c

DigitValue(c) == (CHOOSE i \in 1..10 : Digit[i] = c) - 1

\* fmt's %d of a non-negative integer
RECURSIVE Itoa(_)
Itoa(n) == IF n < 10 THEN <<Digit[n + 1]>> ELSE Itoa(n \div 10) \o <<Digit[(n % 10) + 1]>>

\* fmt's %d
FormatD(n) == IF n < 0 THEN <<"-">> \o Itoa(0 - n) ELSE Itoa(n)

\* fmt's %02d: zero-padded to a width of two, the sign counted in the width
Format02d(n) == IF n >= 0 /\ n < 10 THEN <<"0">> \o Itoa(n) ELSE FormatD(n)

\* strconv.Atoi of a non-empty run of digits
RECURSIVE Atoi(_)
Atoi(s) == IF Len(s) = 1 THEN DigitValue(s[1])
           ELSE 10 * Atoi(SubSeq(s, 1, Len(s) - 1)) + DigitValue(s[Len(s)])

AllDigits(s) == s # <<>> /\ \A i \in 1..Len(s) : IsDigit(s[i])

\* SQLite folds ASCII letters when it compares under LIKE
Lower(c) ==
    CASE c = "S" -> "s"
      [] c = "E" -> "e"
      [] c = "P" -> "p"
      [] OTHER -> c

\* SQLite LIKE: % matches any run of characters, _ any one character,
\* letters compare case-insensitively
RECURSIVE LikeMatch(_, _)
LikeMatch(p, s) ==
    IF p = <<>> THEN s = <<>>
    ELSE IF Head(p) = "%"
         THEN LikeMatch(Tail(p), s) \/ (s # <<>> /\ LikeMatch(p, Tail(s)))
         ELSE /\ s # <<>>
              /\ (Head(p) = "_" \/ Lower(Head(p)) = Lower(Head(s)))
              /\ LikeMatch(Tail(p), Tail(s))

NotDigitClass == <<"[", "^", "0", "-", "9", "]">>

StartsWith(s, pre) == Len(s) >= Len(pre) /\ SubSeq(s, 1, Len(pre)) = pre

\* SQLite GLOB: * matches any run of characters, ? any one character,
\* [^0-9] any one character that is no digit; case-sensitive
RECURSIVE GlobMatch(_, _)
GlobMatch(p, s) ==
    IF p = <<>> THEN s = <<>>
    ELSE IF Head(p) = "*"
         THEN GlobMatch(Tail(p), s) \/ (s # <<>> /\ GlobMatch(p, Tail(s)))
         ELSE IF StartsWith(p, NotDigitClass)
              THEN /\ s # <<>>
                   /\ ~IsDigit(Head(s))
                   /\ GlobMatch(SubSeq(p, 7, Len(p)), Tail(s))
              ELSE /\ s # <<>>
                   /\ (Head(p) = "?" \/ Head(p) = Head(s))
                   /\ GlobMatch(Tail(p), Tail(s))

\* ------------------------------------------------------------------ episode ids
FormatEpisodeID(season, episode) ==
    <<"S">> \o Format02d(season) \o <<"E">> \o Format02d(episode)

\* position of the first "E" after the leading "S", 0 when there is none
FirstE(s) ==
    IF \E i \in 2..Len(s) : s[i] = "E"
    THEN CHOOSE i \in 2..Len(s) : s[i] = "E" /\ \A j \in 2..(i - 1) : s[j] # "E"
    ELSE 0

\* ^S(\d+)E(\d+)$ and the canonical re-formatting of its two numbers
normalizeEpisodeID(input) ==
    LET e == FirstE(input)
        wellFormed ==
            /\ Len(input) >= 4
            /\ input[1] = "S"
            /\ e > 2
            /\ e < Len(input)
            /\ AllDigits(SubSeq(input, 2, e - 1))
            /\ AllDigits(SubSeq(input, e + 1, Len(input)))
    IN  IF wellFormed
        THEN LET season == Atoi(SubSeq(input, 2, e - 1))
                 episode == Atoi(SubSeq(input, e + 1, Len(input)))
             IN  [ok |-> TRUE, normalized |-> FormatEpisodeID(season, episode),
                  season |-> season, episode |-> episode]
        ELSE [ok |-> FALSE, normalized |-> <<>>, season |-> 0, episode |-> 0]

\* ------------------------------------------------------------------ provider documents
TaskTypeUpdate == "UPDATE"
TaskTypeOrganize == "ORGANIZE"

\* tmdb.EpisodeInfo.  AirDate is the "2006-01-02" text: empty, a calendar
\* day (counted from day 0), or text that is no date
EpisodeInfo(season, episode, kind, day, name) ==
    [SeasonNumber |-> season, EpisodeNumber |-> episode,
     AirDate |-> [kind |-> kind, day |-> day], Name |-> name]

Pilot == EpisodeInfo(1, 1, "date", 0, <<"P">>)
Second == EpisodeInfo(1, 2, "date", 1, <<"Q">>)

\* tmdb.TVDetails; an absent episode pointer is the empty sequence
TVDetails(id, status, country, next, last) ==
    [ID |-> id, Name |-> "Show", NumberOfSeasons |-> 1, Status |-> status,
     OriginCountry |-> country, NextEpisodeToAir |-> next, LastEpisodeToAir |-> last]

\* the documents the provider may serve for a catalog id
ProviderDocs(id) ==
    IF id = 1
    THEN { TVDetails(id, "Returning Series", <<"US">>, <<Second>>, <<Pilot>>),
           TVDetails(id, "Ended", <<"JP">>, <<>>, <<Second>>) }
    ELSE { TVDetails(id, "Ended", <<"JP">>, <<>>, <<Second>>) }

\* the episode lists the provider may serve for a season
ProviderSeasons == { <<Second>> }

\* Client.GetTVDetails: what a call may return, a decoded document or, when
\* the provider may fail (f), an error
GetTVDetails(tmdbID, f) ==
    {[err |-> FALSE, details |-> <<doc>>] : doc \in ProviderDocs(tmdbID)}
    \cup (IF f THEN {[err |-> TRUE, details |-> <<>>]} ELSE {})

\* ------------------------------------------------------------------ JSON payloads
\* a JSON value of a pointer field: null, or an object with its members
MarshalEpisode(episode) ==
    IF episode = <<>>
    THEN [type |-> "null"]
    ELSE [type |-> "object",
          members |-> [air_date |-> episode[1].AirDate,
                       episode_number |-> episode[1].EpisodeNumber,
                       season_number |-> episode[1].SeasonNumber,
                       name |-> episode[1].Name]]

UnmarshalEpisode(value) ==
    IF value.type = "null"
    THEN <<>>
    ELSE <<[SeasonNumber |-> value.members.season_number,
            EpisodeNumber |-> value.members.episode_number,
            AirDate |-> value.members.air_date,
            Name |-> value.members.name]>>

\* json.Marshal(details): the object keyed by the json tags of tmdb.TVDetails
Marshal(details) ==
    [id |-> details.ID, name |-> details.Name, status |-> details.Status,
     origin_country |-> details.OriginCountry,
     number_of_seasons |-> details.NumberOfSeasons,
     next_episode_to_air |-> MarshalEpisode(details.NextEpisodeToAir),
     last_episode_to_air |-> MarshalEpisode(details.LastEpisodeToAir)]

\* json.Unmarshal(payload, &details)
Unmarshal(payload) ==
    [ID |-> payload.id, Name |-> payload.name,
     NumberOfSeasons |-> payload.number_of_seasons, Status |-> payload.status,
     OriginCountry |-> payload.origin_country,
     NextEpisodeToAir |-> UnmarshalEpisode(payload.next_episode_to_air),
     LastEpisodeToAir |-> UnmarshalEpisode(payload.last_episode_to_air)]

\* ------------------------------------------------------------------ time
\* time.ParseInLocation("2006-01-02", s, loc): midnight of that day in the clock's zone
ParseInLocation(airDate) ==
    [ok |-> airDate.kind = "date", t |-> airDate.day * TicksPerDay]

\* time.Date(y, m, d, 0, 0, 0, 0, loc): the instant truncated to its calendar day
DateOf(t) == (t \div TicksPerDay) * TicksPerDay

\* t.AddDate(0, 0, 1)
AddDay(t) == t + TicksPerDay

\* ------------------------------------------------------------------ InferResourceTime
InferResourceTime(originCountry) ==
    CASE originCountry \in {"US", "UK", "CA", "GB"} -> "18:00"
      [] originCountry \in {"CN", "TW"} -> "20:00"
      [] originCountry \in {"JP", "KR"} -> "23:00"
      [] OTHER -> "TBD"

\* ------------------------------------------------------------------ TVShowRepository
\* GetByTMDBID as it would be if it looked among the active shows only
GetByTMDBID_ActiveOnly(ss, tmdbID) ==
    IF \E s \in ss : s.TMDBID = tmdbID /\ ~s.IsArchived
    THEN <<CHOOSE s \in ss : s.TMDBID = tmdbID /\ ~s.IsArchived>>
    ELSE <<>>

\* SELECT ... FROM tv_shows WHERE tmdb_id = ?
GetByTMDBID(ss, tmdbID) ==
    IF \E s \in ss : s.TMDBID = tmdbID
    THEN <<CHOOSE s \in ss : s.TMDBID = tmdbID>>
    ELSE <<>>

\* SELECT ... FROM tv_shows WHERE id = ?
GetShowByID(ss, id) ==
    IF \E s \in ss : s.ID = id THEN <<CHOOSE s \in ss : s.ID = id>> ELSE <<>>

GetAllActive(ss) == {s \in ss : ~s.IsArchived}

\* UPDATE tv_shows SET name, total_seasons, status, origin_country,
\* resource_time, resource_time_is_manual, is_archived WHERE id = ?
Update(ss, show) ==
    {IF s.ID = show.ID
     THEN [s EXCEPT !.Name = show.Name, !.TotalSeasons = show.TotalSeasons,
                    !.Status = show.Status, !.OriginCountry = show.OriginCountry,
                    !.ResourceTime = show.ResourceTime,
                    !.ResourceTimeIsManual = show.ResourceTimeIsManual,
                    !.IsArchived = show.IsArchived]
     ELSE s : s \in ss}

Archive(ss, showID) ==
    {IF s.ID = showID THEN [s EXCEPT !.IsArchived = TRUE] ELSE s : s \in ss}

\* ------------------------------------------------------------------ TaskRepository
\* FROM tasks t JOIN tv_shows s ON t.tv_show_id = s.id
Joined(ts, ss) == {t \in ts : \E s \in ss : s.ID = t.TVShowID}

Create(ts, id, showID, taskType, description, at) ==
    ts \cup {[ID |-> id, TVShowID |-> showID, TaskType |-> taskType,
              Description |-> description, IsCompleted |-> FALSE, CreatedAt |-> at]}

CreateWithDate(ts, id, showID, taskType, description, createdAt) ==
    ts \cup {[ID |-> id, TVShowID |-> showID, TaskType |-> taskType,
              Description |-> description, IsCompleted |-> FALSE, CreatedAt |-> createdAt]}

\* the rows a "... LIKE ? LIMIT 1" query may return
getByShowAndDescriptionLike(ts, ss, showID, pattern) ==
    {t \in Joined(ts, ss) : t.TVShowID = showID /\ LikeMatch(pattern, t.Description)}

\* the rows a "... (GLOB ? OR GLOB ?) LIMIT 1" query may return
getByShowAndDescriptionGlob(ts, ss, showID, glob1, glob2) ==
    {t \in Joined(ts, ss) : /\ t.TVShowID = showID
                            /\ \/ GlobMatch(glob1, t.Description)
                               \/ GlobMatch(glob2, t.Description)}

\* GetByShowAndEpisode as it would be if it searched for the unpadded token only
GetByShowAndEpisode_UnpaddedOnly(ts, ss, showID, episode) ==
    LET n == normalizeEpisodeID(episode)
        unpadded == <<"S">> \o FormatD(n.season) \o <<"E">> \o FormatD(n.episode)
    IN  getByShowAndDescriptionGlob(ts, ss, showID,
                                    <<"*">> \o unpadded \o NotDigitClass \o <<"*">>,
                                    <<"*">> \o unpadded)

\* GetByShowAndEpisode as it would be if its unpadded search had no digit boundary
GetByShowAndEpisode_NoBoundary(ts, ss, showID, episode) ==
    LET n == normalizeEpisodeID(episode)
        unpadded == <<"S">> \o FormatD(n.season) \o <<"E">> \o FormatD(n.episode)
    IN  getByShowAndDescriptionLike(ts, ss, showID, n.normalized \o <<"|", "%">>)
        \cup getByShowAndDescriptionGlob(ts, ss, showID,
                                          <<"*">> \o unpadded \o <<"*">>,
                                          <<"*">> \o unpadded)

\* GetByShowAndEpisode as it would be if it searched the incomplete tasks only
GetByShowAndEpisode_PendingOnly(ts, ss, showID, episode) ==
    LET pending == {t \in ts : ~t.IsCompleted}
        n == normalizeEpisodeID(episode)
        byPrefix == getByShowAndDescriptionLike(pending, ss, showID,
                                                n.normalized \o <<"|", "%">>)
        byToken == getByShowAndDescriptionLike(pending, ss, showID,
                                               <<"%">> \o n.normalized \o <<"%">>)
        unpadded == <<"S">> \o FormatD(n.season) \o <<"E">> \o FormatD(n.episode)
        byGlob == getByShowAndDescriptionGlob(pending, ss, showID,
                                              <<"*">> \o unpadded \o NotDigitClass \o <<"*">>,
                                              <<"*">> \o unpadded)
    IN  IF n.ok
        THEN IF byPrefix # {} THEN byPrefix
             ELSE IF byToken # {} THEN byToken
             ELSE byGlob
        ELSE getByShowAndDescriptionLike(pending, ss, showID, <<"%">> \o episode \o <<"%">>)

\* the rows GetByShowAndEpisode may return; empty when it returns nil
GetByShowAndEpisode(ts, ss, showID, episode) ==
    LET n == normalizeEpisodeID(episode)
        byPrefix == getByShowAndDescriptionLike(ts, ss, showID, n.normalized \o <<"|", "%">>)
        byToken == getByShowAndDescriptionLike(ts, ss, showID,
                                               <<"%">> \o n.normalized \o <<"%">>)
        unpadded == <<"S">> \o FormatD(n.season) \o <<"E">> \o FormatD(n.episode)
        byGlob == getByShowAndDescriptionGlob(ts, ss, showID,
                                              <<"*">> \o unpadded \o NotDigitClass \o <<"*">>,
                                              <<"*">> \o unpadded)
    IN  IF n.ok
        THEN IF byPrefix # {} THEN byPrefix
             ELSE IF byToken # {} THEN byToken
             ELSE byGlob
        ELSE getByShowAndDescriptionLike(ts, ss, showID, <<"%">> \o episode \o <<"%">>)

\* ExistsOrganizeTask as it would be if it counted completed ORGANIZE tasks only
ExistsOrganizeTask_CompletedOnly(ts, showID) ==
    Cardinality({t \in ts : t.TVShowID = showID /\ t.TaskType = TaskTypeOrganize
                                                /\ t.IsCompleted}) > 0

\* ExistsOrganizeTask as it would be without its tv_show_id condition
ExistsOrganizeTask_AnyShow(ts, showID) ==
    Cardinality({t \in ts : t.TaskType = TaskTypeOrganize}) > 0

\* SELECT COUNT(*) FROM tasks WHERE tv_show_id = ? AND task_type = 'ORGANIZE'
ExistsOrganizeTask(ts, showID) ==
    Cardinality({t \in ts : t.TVShowID = showID /\ t.TaskType = TaskTypeOrganize}) > 0

Complete(ts, taskID) ==
    {IF t.ID = taskID THEN [t EXCEPT !.IsCompleted = TRUE] ELSE t : t \in ts}

\* GetByID as it would be if it returned some row when none has the id
GetByID_AnyRow(ts, ss, taskID) ==
    IF \E t \in Joined(ts, ss) : t.ID = taskID
    THEN <<CHOOSE t \in Joined(ts, ss) : t.ID = taskID>>
    ELSE IF Joined(ts, ss) # {} THEN <<CHOOSE t \in Joined(ts, ss) : TRUE>> ELSE <<>>

GetByID(ts, ss, taskID) ==
    IF \E t \in Joined(ts, ss) : t.ID = taskID
    THEN <<CHOOSE t \in Joined(ts, ss) : t.ID = taskID>>
    ELSE <<>>

Delete(ts, taskID) == {t \in ts : t.ID # taskID}

\* ------------------------------------------------------------------ EpisodeRepository
\* INSERT ... ON CONFLICT(tmdb_id, season, episode) DO UPDATE SET title, air_date
Upsert(es, tmdbID, ep) ==
    {e \in es : ~(e.TMDBID = tmdbID /\ e.Season = ep.SeasonNumber
                                    /\ e.Episode = ep.EpisodeNumber)}
    \cup {[TMDBID |-> tmdbID, Season |-> ep.SeasonNumber, Episode |-> ep.EpisodeNumber,
           Title |-> ep.Name, AirDate |-> ep.AirDate]}

RECURSIVE UpsertAll(_, _, _)
UpsertAll(es, tmdbID, eps) ==
    IF eps = <<>> THEN es ELSE UpsertAll(Upsert(es, tmdbID, Head(eps)), tmdbID, Tail(eps))

\* ------------------------------------------------------------------ TMDBCacheRepository
\* SELECT payload_json FROM tmdb_cache WHERE tmdb_id = ?: <<>> when no row
CacheGet(c, tmdbID) ==
    IF \E row \in c : row.tmdb_id = tmdbID
    THEN <<(CHOOSE row \in c : row.tmdb_id = tmdbID).payload_json>>
    ELSE <<>>

\* CacheUpsert as it would be with ON CONFLICT(tmdb_id) DO NOTHING
CacheUpsert_KeepsExisting(c, tmdbID, payloadJSON) ==
    IF \E row \in c : row.tmdb_id = tmdbID
    THEN c
    ELSE c \cup {[tmdb_id |-> tmdbID, payload_json |-> payloadJSON]}

\* INSERT INTO tmdb_cache ... ON CONFLICT(tmdb_id) DO UPDATE SET payload_json = ...
CacheUpsert(c, tmdbID, payloadJSON) ==
    {row \in c : row.tmdb_id # tmdbID}
    \cup {[tmdb_id |-> tmdbID, payload_json |-> payloadJSON]}

\* ------------------------------------------------------------------ TMDBCacheService
\* GetCached as it would be if it fetched the document when none is cached
GetCached_OrProvider(c, tmdbID) ==
    IF CacheGet(c, tmdbID) = <<>>
    THEN <<CHOOSE doc \in ProviderDocs(tmdbID) : TRUE>>
    ELSE <<Unmarshal(CacheGet(c, tmdbID)[1])>>

\* GetCached: the decoded cached document of a catalog id, <<>> when there is none
GetCached(c, tmdbID) ==
    IF CacheGet(c, tmdbID) = <<>> THEN <<>> ELSE <<Unmarshal(CacheGet(c, tmdbID)[1])>>

\* Refresh as it would be if it dropped the cached row before asking the provider
Refresh_ClearsFirst(c, tmdbID, response, stored) ==
    LET cleared == {row \in c : row.tmdb_id # tmdbID}
    IN  IF response.err \/ ~stored
        THEN [err |-> TRUE, details |-> <<>>, cache |-> cleared]
        ELSE [err |-> FALSE, details |-> response.details,
              cache |-> CacheUpsert(cleared, tmdbID, Marshal(response.details[1]))]

\* Refresh: the provider's response is encoded and written; when the provider
\* or the write fails nothing is written and the error is returned
Refresh(c, tmdbID, response, stored) ==
    IF response.err \/ ~stored
    THEN [err |-> TRUE, details |-> <<>>, cache |-> c]
    ELSE [err |-> FALSE, details |-> response.details,
          cache |-> CacheUpsert(c, tmdbID, Marshal(response.details[1]))]

\* GetOrRefresh as it would be if it refreshed whether or not a document is cached
GetOrRefresh_Always(c, tmdbID, response, stored) ==
    LET r == Refresh(c, tmdbID, response, stored)
    IN  [err |-> r.err, details |-> r.details, wasCached |-> FALSE,
         called |-> TRUE, cache |-> r.cache]

\* GetOrRefresh: the cached document when there is one, else Refresh; called
\* tells whether the provider was asked
GetOrRefresh(c, tmdbID, response, stored) ==
    IF GetCached(c, tmdbID) # <<>>
    THEN [err |-> FALSE, details |-> GetCached(c, tmdbID), wasCached |-> TRUE,
          called |-> FALSE, cache |-> c]
    ELSE LET r == Refresh(c, tmdbID, response, stored)
         IN  [err |-> r.err, details |-> r.details, wasCached |-> FALSE,
              called |-> TRUE, cache |-> r.cache]

\* ------------------------------------------------------------------ transactions
\* Rollback as it would be if it kept what the transaction has written
Rollback_KeepsWrites(before, written) == written

\* defer tx.Rollback(): the table is what it was when the transaction began
Rollback(before, written) == before

\* ------------------------------------------------------------------ state
VARIABLES
    shows,       \* table tv_shows
    tasks,       \* table tasks
    nextTaskID,  \* the AUTOINCREMENT counter of tasks.id
    episodes,    \* table episodes
    cache,       \* table tmdb_cache: rows of catalog id and payload
    now,         \* timeutil.Now(), in ticks
    pc,          \* where each caller stands in its service call
    loc          \* each caller's local variables

vars == <<shows, tasks, nextTaskID, episodes, cache, now, pc, loc>>

store == <<shows, tasks, nextTaskID, episodes, cache>>

\* SyncResult
SyncResult == [UpdateTasks |-> 0, OrganizeTasks |-> 0, Errors |-> 0]

\* the locals of a caller that is in no call
NoCall ==
    [op |-> "none", arg |-> 0, todo |-> {}, show |-> <<>>, doc |-> <<>>,
     cand |-> "none", task |-> <<>>, result |-> SyncResult, ret |-> "none",
     fetched |-> FALSE, episode |-> <<>>, found |-> {}, wasCached |-> FALSE]

Init ==
    /\ shows = {}
    /\ tasks = {}
    /\ nextTaskID = 1
    /\ episodes = {}
    /\ cache = {}
    /\ now = 0
    /\ pc = [p \in Procs |-> "idle"]
    /\ loc = [p \in Procs |-> NoCall]

\* the call returns ret to its caller
Finish(p, ret) ==
    /\ pc' = [pc EXCEPT ![p] = "done"]
    /\ loc' = [loc EXCEPT ![p].ret = ret]

Goto(p, label, l) ==
    /\ pc' = [pc EXCEPT ![p] = label]
    /\ loc' = [loc EXCEPT ![p] = l]

CountError(l) == [l EXCEPT !.result.Errors = @ + 1]

\* ------------------------------------------------------------------ TaskGenerator.SyncAll
\* shows, err := t.showRepo.GetAllActive()
StartSyncAll(p, f) ==
    /\ pc[p] = "idle"
    /\ \/ Goto(p, "sync_item", [NoCall EXCEPT !.op = "SyncAll", !.todo = GetAllActive(shows)])
       \/ /\ f
          /\ Goto(p, "done", [NoCall EXCEPT !.op = "SyncAll", !.ret = "error"])
    /\ UNCHANGED <<store, now>>

\* the head of the loop: the next show of the snapshot and its cached document
SyncItem(p, f) ==
    /\ pc[p] = "sync_item"
    /\ IF loc[p].todo = {}
       THEN Finish(p, "ok")
       ELSE \E show \in loc[p].todo :
              LET rest == [loc[p] EXCEPT !.todo = @ \ {show}, !.show = <<>>, !.doc = <<>>,
                                         !.cand = "none"]
              IN  \/ /\ f
                     /\ Goto(p, "sync_item", CountError(rest))
                  \/ /\ GetCached(cache, show.TMDBID) = <<>>
                     /\ Goto(p, "sync_item", rest)
                  \/ /\ GetCached(cache, show.TMDBID) # <<>>
                     /\ Goto(p, "update_show",
                             [rest EXCEPT !.show = <<show>>,
                                          !.doc = GetCached(cache, show.TMDBID)])
    /\ UNCHANGED <<store, now>>

\* the fields updateShowData and RefreshShow copy from the document into the show
Mirror(show, doc) ==
    LET base == [show EXCEPT !.Name = doc.Name, !.TotalSeasons = doc.NumberOfSeasons,
                             !.Status = doc.Status]
    IN  IF Len(doc.OriginCountry) > 0 /\ show.OriginCountry # doc.OriginCountry[1]
        THEN [base EXCEPT !.OriginCountry = doc.OriginCountry[1],
                          !.ResourceTime = IF show.ResourceTimeIsManual
                                           THEN show.ResourceTime
                                           ELSE InferResourceTime(doc.OriginCountry[1])]
        ELSE base

\* where an item goes after its show row is written
AfterShow(doc) == IF doc.NumberOfSeasons > 0 THEN "episodes" ELSE "ep_lookup"

\* t.updateShowData(&show, tmdbData): the local show is changed, then written
updateShowData(p, f) ==
    /\ pc[p] = "update_show"
    /\ LET doc == loc[p].doc[1]
           show == Mirror(loc[p].show[1], doc)
           l == [loc[p] EXCEPT !.show = <<show>>, !.cand = "next"]
       IN  \/ /\ shows' = Update(shows, show)
              /\ Goto(p, AfterShow(doc), l)
           \/ /\ f
              /\ shows' = shows
              /\ Goto(p, AfterShow(doc), CountError(l))
    /\ UNCHANGED <<tasks, nextTaskID, episodes, cache, now>>

\* syncSeasonEpisodes: one provider call, then one upsert per episode; an error
\* is logged by SyncAll and returned by RefreshShow
syncSeasonEpisodes(p, f) ==
    /\ pc[p] = "episodes"
    /\ LET doc == loc[p].doc[1]
           l == [loc[p] EXCEPT !.fetched = TRUE, !.cand = "next"]
           failed == IF l.op = "SyncAll"
                     THEN Goto(p, "ep_lookup", l)
                     ELSE Goto(p, "done", [l EXCEPT !.ret = "error"])
       IN  \/ /\ f
              /\ episodes' = episodes
              /\ failed
           \/ \E eps \in ProviderSeasons : \E k \in 0..Len(eps) :
                /\ f \/ k = Len(eps)
                /\ episodes' = UpsertAll(episodes, loc[p].show[1].TMDBID, SubSeq(eps, 1, k))
                /\ IF k = Len(eps) THEN Goto(p, "ep_lookup", l) ELSE failed
    /\ UNCHANGED <<shows, tasks, nextTaskID, cache, now>>

\* ------------------------------------------------------------------ checkEpisodeUpdate
\* the episode pointer checkEpisodeUpdate is looking at
Candidate(l) ==
    IF l.cand = "next" THEN l.doc[1].NextEpisodeToAir ELSE l.doc[1].LastEpisodeToAir

\* Due as it would be if an episode that airs today counted as not yet aired
Due_SkipsToday(episode, t) ==
    IF episode = <<>> \/ episode[1].AirDate.kind = "empty" THEN "none"
    ELSE IF ~ParseInLocation(episode[1].AirDate).ok THEN "error"
    ELSE IF DateOf(ParseInLocation(episode[1].AirDate).t) >= DateOf(t) THEN "none"
    ELSE "lookup"

\* createUpdateTaskIfNeeded up to its existence check: "none" (return nil, nil),
\* "error" (the air date does not parse) or "lookup" (ask the matcher)
Due(episode, t) ==
    IF episode = <<>> \/ episode[1].AirDate.kind = "empty" THEN "none"
    ELSE IF ~ParseInLocation(episode[1].AirDate).ok THEN "error"
    ELSE IF DateOf(ParseInLocation(episode[1].AirDate).t) > DateOf(t) THEN "none"
    ELSE "lookup"

EpisodeIDOf(episode) == FormatEpisodeID(episode.SeasonNumber, episode.EpisodeNumber)

\* the text the engine writes between the prefix and the episode name
UpdateLabel == <<"n", "e", "w", ":", " ">>

\* fmt.Sprintf("%s|...: %s - %s", episodeID, episodeID, episode.Name)
UpdateDescription(episode) ==
    EpisodeIDOf(episode) \o <<"|">> \o UpdateLabel \o EpisodeIDOf(episode)
        \o <<" ", "-", " ">> \o episode.Name

OrganizeDescription == <<"o", "r", "g", "a", "n", "i", "z", "e">>

\* NoTask as it would be if SyncAll counted an UPDATE task whenever
\* checkEpisodeUpdate returned no error
NoTask_Counted(p) ==
    IF loc[p].cand = "next"
    THEN Goto(p, "ep_lookup", [loc[p] EXCEPT !.cand = "last"])
    ELSE Goto(p, "organize_lookup", [loc[p] EXCEPT !.cand = "none",
                                                   !.result.UpdateTasks = @ + 1])

\* checkEpisodeUpdate found no task to create for this candidate
NoTask(p) ==
    IF loc[p].cand = "next"
    THEN Goto(p, "ep_lookup", [loc[p] EXCEPT !.cand = "last"])
    ELSE Goto(p, "organize_lookup", [loc[p] EXCEPT !.cand = "none"])

\* checkEpisodeUpdate returned an error: counted by SyncAll, returned by RefreshShow
EpisodeError(p) ==
    IF loc[p].op = "SyncAll"
    THEN Goto(p, "organize_lookup", CountError([loc[p] EXCEPT !.cand = "none"]))
    ELSE Finish(p, "error")

\* createUpdateTaskIfNeeded, from its entry to the result of GetByShowAndEpisode
lookupUpdateTask(p, f) ==
    /\ pc[p] = "ep_lookup"
    /\ LET episode == Candidate(loc[p])
           due == Due(episode, now)
       IN  CASE due = "none" -> NoTask(p)
             [] due = "error" -> EpisodeError(p)
             [] OTHER ->
                  \/ /\ f
                     /\ EpisodeError(p)
                  \/ /\ GetByShowAndEpisode(tasks, shows, loc[p].show[1].ID,
                                            EpisodeIDOf(episode[1])) # {}
                     /\ NoTask(p)
                  \/ /\ GetByShowAndEpisode(tasks, shows, loc[p].show[1].ID,
                                            EpisodeIDOf(episode[1])) = {}
                     /\ Goto(p, "ep_create", loc[p])
    /\ UNCHANGED <<store, now>>

\* createUpdateTask as it would be if checkEpisodeUpdate went on to the last
\* aired episode after it created a task for the next one
createUpdateTask_GoesOn(p, f) ==
    /\ pc[p] = "ep_create"
    /\ \/ /\ nextTaskID <= MaxTasks
          /\ tasks' = Create(tasks, nextTaskID, loc[p].show[1].ID, TaskTypeUpdate,
                             UpdateDescription(Candidate(loc[p])[1]), now)
          /\ nextTaskID' = nextTaskID + 1
          /\ LET l == [loc[p] EXCEPT !.result.UpdateTasks =
                                         IF loc[p].op = "SyncAll" THEN @ + 1 ELSE @]
             IN  IF loc[p].cand = "next"
                 THEN Goto(p, "ep_lookup", [l EXCEPT !.cand = "last"])
                 ELSE Goto(p, "organize_lookup", [l EXCEPT !.cand = "none"])
       \/ /\ f \/ nextTaskID > MaxTasks
          /\ UNCHANGED <<tasks, nextTaskID>>
          /\ EpisodeError(p)
    /\ UNCHANGED <<shows, episodes, cache, now>>

\* createUpdateTaskIfNeeded: t.taskRepo.Create(task); a created task ends
\* checkEpisodeUpdate
createUpdateTask(p, f) ==
    /\ pc[p] = "ep_create"
    /\ \/ /\ nextTaskID <= MaxTasks
          /\ tasks' = Create(tasks, nextTaskID, loc[p].show[1].ID, TaskTypeUpdate,
                             UpdateDescription(Candidate(loc[p])[1]), now)
          /\ nextTaskID' = nextTaskID + 1
          /\ Goto(p, "organize_lookup",
                  [loc[p] EXCEPT !.cand = "none",
                                 !.result.UpdateTasks = IF loc[p].op = "SyncAll" THEN @ + 1 ELSE @])
       \/ /\ f \/ nextTaskID > MaxTasks
          /\ UNCHANGED <<tasks, nextTaskID>>
          /\ EpisodeError(p)
    /\ UNCHANGED <<shows, episodes, cache, now>>

\* ------------------------------------------------------------------ checkShowEnded
\* the item is finished: SyncAll goes on with the next show, RefreshShow returns
ItemDone(p, l) ==
    IF l.op = "SyncAll"
    THEN Goto(p, "sync_item", [l EXCEPT !.show = <<>>, !.doc = <<>>])
    ELSE Goto(p, "done", [l EXCEPT !.ret = "ok"])

\* the error of checkShowEnded as it would be handled if it ended the pass
EndedError_Aborts(p) == Finish(p, "error")

EndedError(p) ==
    IF loc[p].op = "SyncAll"
    THEN Goto(p, "sync_item", CountError([loc[p] EXCEPT !.show = <<>>, !.doc = <<>>]))
    ELSE Finish(p, "error")

\* checkShowEnded, from its entry to the result of ExistsOrganizeTask
lookupOrganizeTask(p, f) ==
    /\ pc[p] = "organize_lookup"
    /\ IF loc[p].doc[1].Status # "Ended" /\ loc[p].doc[1].Status # "Canceled"
       THEN ItemDone(p, loc[p])
       ELSE \/ /\ f
               /\ EndedError(p)
            \/ /\ ExistsOrganizeTask(tasks, loc[p].show[1].ID)
               /\ ItemDone(p, loc[p])
            \/ /\ ~ExistsOrganizeTask(tasks, loc[p].show[1].ID)
               /\ Goto(p, "organize_create", loc[p])
    /\ UNCHANGED <<store, now>>

\* checkShowEnded: t.taskRepo.Create(task)
createOrganizeTask(p, f) ==
    /\ pc[p] = "organize_create"
    /\ \/ /\ nextTaskID <= MaxTasks
          /\ tasks' = Create(tasks, nextTaskID, loc[p].show[1].ID, TaskTypeOrganize,
                             OrganizeDescription, now)
          /\ nextTaskID' = nextTaskID + 1
          /\ ItemDone(p, [loc[p] EXCEPT !.result.OrganizeTasks =
                                             IF loc[p].op = "SyncAll" THEN @ + 1 ELSE @])
       \/ /\ f \/ nextTaskID > MaxTasks
          /\ UNCHANGED <<tasks, nextTaskID>>
          /\ EndedError(p)
    /\ UNCHANGED <<shows, episodes, cache, now>>

\* ------------------------------------------------------------------ ShowSyncService.RefreshShow
\* details, err := s.cacheSvc.Refresh(tmdbID)
StartRefreshShow(p, f, ids) ==
    /\ pc[p] = "idle"
    /\ \E tmdbID \in ids : \E response \in GetTVDetails(tmdbID, f) : \E stored \in {TRUE, ~f} :
         LET l == [NoCall EXCEPT !.op = "RefreshShow", !.arg = tmdbID, !.fetched = TRUE]
             r == Refresh(cache, tmdbID, response, stored)
         IN  /\ cache' = r.cache
             /\ IF r.err
                THEN Goto(p, "done", [l EXCEPT !.ret = "error"])
                ELSE Goto(p, "refresh_load", [l EXCEPT !.doc = r.details])
    /\ UNCHANGED <<shows, tasks, nextTaskID, episodes, now>>

\* show, err := s.showRepo.GetByTMDBID(tmdbID)
loadShow(p, f) ==
    /\ pc[p] = "refresh_load"
    /\ \/ /\ f
          /\ Finish(p, "error")
       \/ Goto(p, "refresh_store", [loc[p] EXCEPT !.show = GetByTMDBID(shows, loc[p].arg)])
    /\ UNCHANGED <<store, now>>

\* the show RefreshShow inserts when none is stored for the catalog id
NewShow(id, doc) ==
    [ID |-> id, TMDBID |-> doc.ID, Name |-> doc.Name,
     TotalSeasons |-> doc.NumberOfSeasons, Status |-> doc.Status,
     OriginCountry |-> IF Len(doc.OriginCountry) > 0 THEN doc.OriginCountry[1] ELSE "",
     ResourceTime |-> IF Len(doc.OriginCountry) > 0
                      THEN InferResourceTime(doc.OriginCountry[1]) ELSE "TBD",
     ResourceTimeIsManual |-> FALSE, IsArchived |-> FALSE]

\* s.showRepo.Create(show) or s.showRepo.Update(show); tmdb_id is UNIQUE
storeShow(p, f) ==
    /\ pc[p] = "refresh_store"
    /\ LET doc == loc[p].doc[1]
       IN  \/ /\ f \/ (loc[p].show = <<>> /\ GetByTMDBID(shows, doc.ID) # <<>>)
              /\ shows' = shows
              /\ Finish(p, "error")
           \/ /\ loc[p].show = <<>>
              /\ GetByTMDBID(shows, doc.ID) = <<>>
              /\ LET show == NewShow(Cardinality(shows) + 1, doc)
                 IN  /\ shows' = shows \cup {show}
                     /\ Goto(p, AfterShow(doc), [loc[p] EXCEPT !.show = <<show>>,
                                                               !.cand = "next"])
           \/ /\ loc[p].show # <<>>
              /\ LET show == Mirror(loc[p].show[1], doc)
                 IN  /\ shows' = Update(shows, show)
                     /\ Goto(p, AfterShow(doc), [loc[p] EXCEPT !.show = <<show>>,
                                                               !.cand = "next"])
    /\ UNCHANGED <<tasks, nextTaskID, episodes, cache, now>>

\* ------------------------------------------------------------------ TaskBoardService
\* task, err := s.taskRepo.GetByID(taskID), before the transaction begins
StartCompleteTask(p, f) ==
    /\ pc[p] = "idle"
    /\ \E taskID \in TaskIDs :
         LET l == [NoCall EXCEPT !.op = "CompleteTask", !.arg = taskID]
         IN  \/ /\ f
                /\ Goto(p, "done", [l EXCEPT !.ret = "error"])
             \/ /\ GetByID(tasks, shows, taskID) = <<>>
                /\ Goto(p, "done", [l EXCEPT !.ret = "notfound"])
             \/ /\ GetByID(tasks, shows, taskID) # <<>>
                /\ Goto(p, "complete_tx", [l EXCEPT !.task = GetByID(tasks, shows, taskID)])
    /\ UNCHANGED <<store, now>>

\* CompleteTask from BeginTx to Commit: Complete, then Archive for an ORGANIZE
\* task; any failure rolls the transaction back
completeTx(p, f) ==
    /\ pc[p] = "complete_tx"
    /\ \/ /\ f
          /\ UNCHANGED <<shows, tasks>>
          /\ Finish(p, "error")
       \/ /\ tasks' = Complete(tasks, loc[p].arg)
          /\ shows' = IF loc[p].task[1].TaskType = TaskTypeOrganize
                      THEN Archive(shows, loc[p].task[1].TVShowID)
                      ELSE shows
          /\ Finish(p, "ok")
    /\ UNCHANGED <<nextTaskID, episodes, cache, now>>

\* task, err := s.taskRepo.GetByID(taskID), before the transaction begins
StartPostponeTask(p, f) ==
    /\ pc[p] = "idle"
    /\ \E taskID \in TaskIDs :
         LET l == [NoCall EXCEPT !.op = "PostponeTask", !.arg = taskID]
         IN  \/ /\ f
                /\ Goto(p, "done", [l EXCEPT !.ret = "error"])
             \/ /\ GetByID(tasks, shows, taskID) = <<>>
                /\ Goto(p, "done", [l EXCEPT !.ret = "notfound"])
             \/ /\ GetByID(tasks, shows, taskID) # <<>>
                /\ Goto(p, "postpone_tx", [l EXCEPT !.task = GetByID(tasks, shows, taskID)])
    /\ UNCHANGED <<store, now>>

\* tomorrow := timeutil.Now().AddDate(0, 0, 1)
Tomorrow(task, t) == AddDay(t)

\* PostponeWrites as it would be if the new task took the category and the
\* date of the old one but not its description
PostponeWrites_DropsDescription(ts, id, taskID, task, at, k) ==
    LET created == CreateWithDate(ts, id, task.TVShowID, task.TaskType, <<>>, at)
    IN  CASE k = 0 -> ts
          [] k = 1 -> created
          [] OTHER -> Delete(created, taskID)

\* the tasks table inside the transaction of PostponeTask after its first k
\* writes: CreateWithDate, then Delete
PostponeWrites(ts, id, taskID, task, at, k) ==
    LET created == CreateWithDate(ts, id, task.TVShowID, task.TaskType, task.Description, at)
    IN  CASE k = 0 -> ts
          [] k = 1 -> created
          [] OTHER -> Delete(created, taskID)

\* PostponeTask from BeginTx to Commit: CreateWithDate, then Delete; a failure
\* of CreateWithDate (k = 0), of Delete (k = 1) or of Commit (k = 2) rolls the
\* transaction back
postponeTx(p, f) ==
    /\ pc[p] = "postpone_tx"
    /\ LET task == loc[p].task[1]
           at == Tomorrow(task, now)
       IN  \/ /\ f \/ nextTaskID > MaxTasks
              /\ \E k \in 0..2 :
                   /\ nextTaskID > MaxTasks => k = 0
                   /\ tasks' = Rollback(tasks, PostponeWrites(tasks, nextTaskID,
                                                              loc[p].arg, task, at, k))
              /\ nextTaskID' = nextTaskID
              /\ Finish(p, "error")
           \/ /\ nextTaskID <= MaxTasks
              /\ tasks' = PostponeWrites(tasks, nextTaskID, loc[p].arg, task, at, 2)
              /\ nextTaskID' = nextTaskID + 1
              /\ Finish(p, "ok")
    /\ UNCHANGED <<shows, episodes, cache, now>>

\* ------------------------------------------------------------------ SubscriptionManager.Subscribe
\* existing, err := s.showRepo.GetByTMDBID(tmdbID)
StartSubscribe(p, f, ids) ==
    /\ pc[p] = "idle"
    /\ \E tmdbID \in ids :
         LET l == [NoCall EXCEPT !.op = "Subscribe", !.arg = tmdbID]
         IN  \/ /\ f
                /\ Goto(p, "done", [l EXCEPT !.ret = "error"])
             \/ /\ GetByTMDBID(shows, tmdbID) # <<>>
                /\ Goto(p, "done", [l EXCEPT !.show = GetByTMDBID(shows, tmdbID),
                                             !.ret = "exists"])
             \/ /\ GetByTMDBID(shows, tmdbID) = <<>>
                /\ Goto(p, "subscribe_doc", l)
    /\ UNCHANGED <<store, now>>

\* details, _, err := s.cacheSvc.GetOrRefresh(tmdbID)
subscribeDocument(p, f) ==
    /\ pc[p] = "subscribe_doc"
    /\ \/ /\ f
          /\ cache' = cache
          /\ Finish(p, "error")
       \/ \E response \in GetTVDetails(loc[p].arg, f) : \E stored \in {TRUE, ~f} :
            LET r == GetOrRefresh(cache, loc[p].arg, response, stored)
                l == [loc[p] EXCEPT !.fetched = r.called, !.wasCached = r.wasCached]
            IN  /\ cache' = r.cache
                /\ IF r.err
                   THEN Goto(p, "done", [l EXCEPT !.ret = "error"])
                   ELSE Goto(p, "subscribe_store", [l EXCEPT !.doc = r.details])
    /\ UNCHANGED <<shows, tasks, nextTaskID, episodes, now>>

\* the show Subscribe inserts
SubscribedShow(id, details) ==
    LET originCountry == IF Len(details.OriginCountry) > 0
                         THEN details.OriginCountry[1] ELSE ""
    IN  [ID |-> id, TMDBID |-> details.ID, Name |-> details.Name,
         TotalSeasons |-> details.NumberOfSeasons, Status |-> details.Status,
         OriginCountry |-> originCountry,
         ResourceTime |-> InferResourceTime(originCountry),
         ResourceTimeIsManual |-> FALSE, IsArchived |-> FALSE]

\* s.showRepo.Create(show); tmdb_id is UNIQUE
subscribeStore(p, f) ==
    /\ pc[p] = "subscribe_store"
    /\ LET details == loc[p].doc[1]
           show == SubscribedShow(Cardinality(shows) + 1, details)
       IN  \/ /\ f \/ GetByTMDBID(shows, details.ID) # <<>>
              /\ shows' = shows
              /\ Finish(p, "error")
           \/ /\ GetByTMDBID(shows, details.ID) = <<>>
              /\ shows' = shows \cup {show}
              /\ IF details.NumberOfSeasons > 0
                 THEN Goto(p, "subscribe_episodes", [loc[p] EXCEPT !.show = <<show>>])
                 ELSE Goto(p, "done", [loc[p] EXCEPT !.show = <<show>>, !.ret = "ok"])
    /\ UNCHANGED <<tasks, nextTaskID, episodes, cache, now>>

\* s.syncSeasonEpisodes(tmdbID, details.NumberOfSeasons): a failure is logged
\* and the subscription stands
subscribeEpisodes(p, f) ==
    /\ pc[p] = "subscribe_episodes"
    /\ \E eps \in ProviderSeasons : \E k \in 0..Len(eps) :
         /\ f \/ k = Len(eps)
         /\ episodes' = UpsertAll(episodes, loc[p].arg, SubSeq(eps, 1, k))
         /\ Goto(p, "done", [loc[p] EXCEPT !.fetched = TRUE, !.ret = "ok"])
    /\ UNCHANGED <<shows, tasks, nextTaskID, cache, now>>

\* ------------------------------------------------------------------ HTTPHandler.UpdateResourceTime
\* the labels a user may send
ManualLabels == {"21:00"}

\* show, err := h.showRepo.GetByID(id); show.ResourceTime = req.ResourceTime
StartUpdateResourceTime(p, f) ==
    /\ pc[p] = "idle"
    /\ \E id \in 1..MaxShows : \E label \in ManualLabels :
         LET l == [NoCall EXCEPT !.op = "UpdateResourceTime", !.arg = id]
         IN  \/ /\ f
                /\ Goto(p, "done", [l EXCEPT !.ret = "error"])
             \/ /\ GetShowByID(shows, id) = <<>>
                /\ Goto(p, "done", [l EXCEPT !.ret = "notfound"])
             \/ /\ GetShowByID(shows, id) # <<>>
                /\ Goto(p, "label_store",
                        [l EXCEPT !.show = <<[GetShowByID(shows, id)[1]
                                                 EXCEPT !.ResourceTime = label]>>])
    /\ UNCHANGED <<store, now>>

\* h.showRepo.Update(show)
storeResourceTime(p, f) ==
    /\ pc[p] = "label_store"
    /\ \/ /\ f
          /\ shows' = shows
          /\ Finish(p, "error")
       \/ /\ shows' = Update(shows, loc[p].show[1])
          /\ Finish(p, "ok")
    /\ UNCHANGED <<tasks, nextTaskID, episodes, cache, now>>

\* ------------------------------------------------------------------ a whole pass, step by step
\* The store a pass works on is the record [shows, tasks, nextTaskID, episodes,
\* result]; the pass runs alone and reads the cache and the clock of the current
\* state. A fault names the statement of one item that fails, and for the
\* statements of createUpdateTaskIfNeeded the candidate it fails on.
NoFault == <<"none", "">>

Faults ==
    {<<"GetCached", "">>, <<"Update", "">>, <<"GetSeasonEpisodes", "">>,
     <<"GetByShowAndEpisode", "next">>, <<"GetByShowAndEpisode", "last">>,
     <<"Create", "next">>, <<"Create", "last">>,
     <<"ExistsOrganizeTask", "">>, <<"Create", "">>}

\* what a check of one item returns: the store it leaves, whether it created a
\* task, whether it returned an error
Checked(st, task, err) == [st |-> st, task |-> task, err |-> err]

\* t.taskRepo.Create(task) on the store of the pass
Created(st, show, taskType, description) ==
    [st EXCEPT !.tasks = Create(st.tasks, st.nextTaskID, show.ID, taskType, description, now),
               !.nextTaskID = @ + 1]

\* createUpdateTaskIfNeeded(show, episode) for the candidate named which
createUpdateTaskIfNeeded(st, show, episode, which, fault) ==
    CASE Due(episode, now) = "none" -> Checked(st, FALSE, FALSE)
      [] Due(episode, now) = "error" -> Checked(st, FALSE, TRUE)
      [] OTHER ->
           IF fault = <<"GetByShowAndEpisode", which>> THEN Checked(st, FALSE, TRUE)
           ELSE IF GetByShowAndEpisode(st.tasks, st.shows, show.ID,
                                       EpisodeIDOf(episode[1])) # {}
           THEN Checked(st, FALSE, FALSE)
           ELSE IF fault = <<"Create", which>> THEN Checked(st, FALSE, TRUE)
           ELSE Checked(Created(st, show, TaskTypeUpdate, UpdateDescription(episode[1])),
                        TRUE, FALSE)

\* checkEpisodeUpdate(show, tmdbData)
checkEpisodeUpdate(st, show, doc, fault) ==
    LET next == createUpdateTaskIfNeeded(st, show, doc.NextEpisodeToAir, "next", fault)
    IN  IF next.err \/ next.task THEN next
        ELSE createUpdateTaskIfNeeded(st, show, doc.LastEpisodeToAir, "last", fault)

\* checkShowEnded(show, tmdbData)
checkShowEnded(st, show, doc, fault) ==
    IF doc.Status # "Ended" /\ doc.Status # "Canceled" THEN Checked(st, FALSE, FALSE)
    ELSE IF fault = <<"ExistsOrganizeTask", "">> THEN Checked(st, FALSE, TRUE)
    ELSE IF ExistsOrganizeTask(st.tasks, show.ID) THEN Checked(st, FALSE, FALSE)
    ELSE IF fault = <<"Create", "">> THEN Checked(st, FALSE, TRUE)
    ELSE Checked(Created(st, show, TaskTypeOrganize, OrganizeDescription), TRUE, FALSE)

\* the counting of what a check returned: result.Errors++ or result.<field>++
Counted(checked, field) ==
    IF checked.err THEN [checked.st EXCEPT !.result.Errors = @ + 1]
    ELSE IF checked.task THEN [checked.st EXCEPT !.result[field] = @ + 1]
    ELSE checked.st

\* the body of the loop of SyncAll for one show of the snapshot
SyncShow(st, show, fault) ==
    IF fault = <<"GetCached", "">> THEN [st EXCEPT !.result.Errors = @ + 1]
    ELSE IF GetCached(cache, show.TMDBID) = <<>> THEN st
    ELSE LET doc == GetCached(cache, show.TMDBID)[1]
             mirrored == IF fault = <<"Update", "">>
                         THEN [st EXCEPT !.result.Errors = @ + 1]
                         ELSE [st EXCEPT !.shows = Update(st.shows, Mirror(show, doc))]
             synced == IF doc.NumberOfSeasons > 0 /\ fault # <<"GetSeasonEpisodes", "">>
                       THEN [mirrored EXCEPT !.episodes =
                                UpsertAll(@, show.TMDBID, CHOOSE eps \in ProviderSeasons : TRUE)]
                       ELSE mirrored
             updated == Counted(checkEpisodeUpdate(synced, show, doc, fault), "UpdateTasks")
         IN  Counted(checkShowEnded(updated, show, doc, fault), "OrganizeTasks")

\* for _, show := range shows: the pass over the snapshot in the order given,
\* no statement failing
RECURSIVE SyncAll(_, _)
SyncAll(st, order) ==
    IF order = <<>> THEN st ELSE SyncAll(SyncShow(st, Head(order), NoFault), Tail(order))

\* the orders in which a snapshot may be visited
Orders(snapshot) ==
    {o \in [1..Cardinality(snapshot) -> snapshot] :
        \A i, j \in 1..Cardinality(snapshot) : o[i] = o[j] => i = j}

\* the store of the current state as a pass sees it when it starts
PassStart ==
    [shows |-> shows, tasks |-> tasks, nextTaskID |-> nextTaskID,
     episodes |-> episodes, result |-> SyncResult]

\* what a pass started in the current state leaves when it visits its snapshot in order
PassIn(order) == SyncAll(PassStart, order)

\* ------------------------------------------------------------------ callers and the clock
\* the caller takes the result; its locals are gone
Return(p) ==
    /\ pc[p] = "done"
    /\ pc' = [pc EXCEPT ![p] = "idle"]
    /\ loc' = [loc EXCEPT ![p] = NoCall]
    /\ UNCHANGED <<store, now>>

Tick ==
    /\ now < MaxNow
    /\ now' = now + 1
    /\ UNCHANGED <<store, pc, loc>>

\* one step of caller p; f: the store and the provider may fail; ids: the
\* catalog ids a refresh may name
Step(p, f, ids) ==
    \/ StartSyncAll(p, f)
    \/ SyncItem(p, f)
    \/ updateShowData(p, f)
    \/ syncSeasonEpisodes(p, f)
    \/ lookupUpdateTask(p, f)
    \/ createUpdateTask(p, f)
    \/ lookupOrganizeTask(p, f)
    \/ createOrganizeTask(p, f)
    \/ StartRefreshShow(p, f, ids)
    \/ loadShow(p, f)
    \/ storeShow(p, f)
    \/ StartCompleteTask(p, f)
    \/ completeTx(p, f)
    \/ StartPostponeTask(p, f)
    \/ postponeTx(p, f)
    \/ Return(p)

\* callers race on one tracked item: any caller takes its next step
Next == \E p \in Procs : Step(p, FALSE, {1})

Spec == Init /\ [][Next]_vars

\* one call at a time, over every catalog id, with a store and a provider that may fail
NextSerial == Step(1, TRUE, TMDBIDs)

SpecSerial == Init /\ [][NextSerial]_vars

\* one call at a time on one tracked item while the clock advances
NextClock == Tick \/ Step(1, TRUE, {1})

SpecClock == Init /\ [][NextClock]_vars

\* a store written by the release that had no tmdb_cache table: shows are
\* tracked, some archived, and no document is cached
InitUpgraded ==
    /\ \E n \in 1..MaxShows : \E archived \in SUBSET (1..n) :
         shows = {[NewShow(i, CHOOSE doc \in ProviderDocs(i) : doc.Status = "Ended")
                      EXCEPT !.IsArchived = (i \in archived)] : i \in 1..n}
    /\ tasks = {}
    /\ nextTaskID = 1
    /\ episodes = {}
    /\ cache = {}
    /\ now = 0
    /\ pc = [p \in Procs |-> "idle"]
    /\ loc = [p \in Procs |-> NoCall]

\* one call at a time over the upgraded store
NextUpgraded == Step(1, FALSE, TMDBIDs)

SpecUpgraded == InitUpgraded /\ [][NextUpgraded]_vars

\* one step of caller p in the calls that manage the library
StepLibrary(p, f, ids) ==
    \/ StartSubscribe(p, f, ids)
    \/ subscribeDocument(p, f)
    \/ subscribeStore(p, f)
    \/ subscribeEpisodes(p, f)
    \/ StartUpdateResourceTime(p, f)
    \/ storeResourceTime(p, f)

\* one call at a time on one catalog id, subscriptions and label edits
\* included, with a store and a provider that may fail
NextLibrary == StepLibrary(1, TRUE, {1}) \/ Step(1, TRUE, {1})

SpecLibrary == Init /\ [][NextLibrary]_vars

\* ------------------------------------------------------------------ the episode matcher alone
\* reminders stored before a lookup
MaxStored == 2

\* episode numbers of season 1 whose digits are prefixes of one another
MatcherEpisodes == {1, 10, 100}

\* how a stored description carries its episode: as the engine writes it, as
\* legacy text around the padded token, as legacy text around the unpadded
\* token, or as legacy text that ends with the unpadded token
MatcherStyles == {"engine", "padded", "unpadded", "bare"}

LegacyLead == <<"n", "e", "w", " ">>
LegacyTrail == <<" ", "o", "u", "t">>

\* the description of a reminder stored for episode e of season 1
StoredDescription(e, style) ==
    LET unpadded == <<"S">> \o FormatD(1) \o <<"E">> \o FormatD(e)
    IN  CASE style = "engine" -> UpdateDescription(EpisodeInfo(1, e, "date", 0, <<"P">>))
          [] style = "padded" -> LegacyLead \o FormatEpisodeID(1, e) \o LegacyTrail
          [] style = "unpadded" -> LegacyLead \o unpadded \o LegacyTrail
          [] OTHER -> LegacyLead \o unpadded

\* the reminders of show 1 that were stored for episode e
StoredFor(ts, e) ==
    {t \in ts : \E style \in MatcherStyles : t.Description = StoredDescription(e, style)}

\* one tracked show and up to MaxStored reminders of it, of any episode and style
InitMatcher ==
    /\ shows = {NewShow(1, TVDetails(1, "Returning Series", <<"US">>, <<>>, <<>>))}
    /\ \E n \in 1..MaxStored :
         \E rows \in [1..n -> MatcherEpisodes \X MatcherStyles] :
              /\ \A i, j \in 1..n : rows[i] = rows[j] => i = j
              /\ tasks = {[ID |-> i, TVShowID |-> 1, TaskType |-> TaskTypeUpdate,
                           Description |-> StoredDescription(rows[i][1], rows[i][2]),
                           IsCompleted |-> FALSE, CreatedAt |-> 0] : i \in 1..n}
              /\ nextTaskID = n + 1
    /\ episodes = {}
    /\ cache = {}
    /\ now = 0
    /\ pc = [p \in Procs |-> "idle"]
    /\ loc = [p \in Procs |-> NoCall]

\* existingTask, err := t.taskRepo.GetByShowAndEpisode(show.ID, episodeID)
LookupEpisode(p) ==
    /\ pc[p] = "idle"
    /\ \E e \in MatcherEpisodes :
         LET episodeID == FormatEpisodeID(1, e)
         IN  Goto(p, "done",
                  [NoCall EXCEPT !.op = "GetByShowAndEpisode", !.arg = e,
                                 !.episode = episodeID,
                                 !.found = GetByShowAndEpisode(tasks, shows, 1, episodeID),
                                 !.ret = "ok"])
    /\ UNCHANGED <<store, now>>

NextMatcher == LookupEpisode(1) \/ Return(1)

SpecMatcher == InitMatcher /\ [][NextMatcher]_vars

\* ------------------------------------------------------------------ reading the store
Incomplete(ts) == {t \in ts : ~t.IsCompleted}

\* the episode token a description carries in front of its "|"; empty when it has none
TokenOf(description) ==
    IF \E i \in 1..Len(description) : description[i] = "|"
    THEN SubSeq(description, 1,
                (CHOOSE i \in 1..Len(description) :
                    /\ description[i] = "|"
                    /\ \A j \in 1..(i - 1) : description[j] # "|") - 1)
    ELSE <<>>

\* two reminders of the same (item, category, episode token)
SameKey(a, b) ==
    /\ a.TVShowID = b.TVShowID
    /\ a.TaskType = b.TaskType
    /\ TokenOf(a.Description) = TokenOf(b.Description)

IsArchived(ss, showID) == \E s \in ss : s.ID = showID /\ s.IsArchived

\* caller p has just returned ret from a call of op
Returned(p, op, ret) == pc[p] = "done" /\ loc[p].op = op /\ loc[p].ret = ret

\* caller p takes this step inside a call of op
StepOf(p, op) == loc[p].op = op /\ (pc'[p] # pc[p] \/ loc'[p] # loc[p])

\* the reminders of show showID
TasksOf(ts, showID) == {t \in ts : t.TVShowID = showID}

\* ------------------------------------------------------------------ C1
\* C1: with one call at a time, however many SyncAll passes have run, no two
\* incomplete UPDATE reminders of one show carry the same episode token.
C1_OneUpdatePerEpisode ==
    \A a, b \in Incomplete(tasks) :
        (a.TaskType = TaskTypeUpdate /\ SameKey(a, b)) => a = b

\* a SyncAll pass has returned without creating anything although a show of its
\* snapshot has a due candidate: the reminder of that episode was found
C1_Witness ==
    /\ Returned(1, "SyncAll", "ok")
    /\ loc[1].result = SyncResult
    /\ \E s \in GetAllActive(shows) :
         /\ GetCached(cache, s.TMDBID) # <<>>
         /\ Due(GetCached(cache, s.TMDBID)[1].LastEpisodeToAir, now) = "lookup"
         /\ \E t \in Incomplete(tasks) :
              /\ t.TVShowID = s.ID
              /\ t.TaskType = TaskTypeUpdate
              /\ TokenOf(t.Description) =
                     EpisodeIDOf(GetCached(cache, s.TMDBID)[1].LastEpisodeToAir[1])

\* ------------------------------------------------------------------ C2
\* C2: with one call at a time, however many SyncAll passes have run, a show
\* has at most one incomplete ORGANIZE reminder.
C2_OneOrganizePerShow ==
    \A a, b \in Incomplete(tasks) :
        (a.TaskType = TaskTypeOrganize /\ b.TaskType = TaskTypeOrganize
            /\ a.TVShowID = b.TVShowID) => a = b

\* a SyncAll pass has returned without creating anything although an active show
\* of its snapshot has ended: its ORGANIZE reminder was found
C2_Witness ==
    /\ Returned(1, "SyncAll", "ok")
    /\ loc[1].result = SyncResult
    /\ \E s \in GetAllActive(shows) :
         /\ GetCached(cache, s.TMDBID) # <<>>
         /\ GetCached(cache, s.TMDBID)[1].Status = "Ended"
         /\ \E t \in Incomplete(tasks) :
              t.TVShowID = s.ID /\ t.TaskType = TaskTypeOrganize

\* ------------------------------------------------------------------ C3
\* C3: while callers race, no two incomplete UPDATE reminders of one show carry
\* the same episode token.
C3_RacingOneUpdatePerEpisode ==
    \A a \in Incomplete(tasks) : \A b \in Incomplete(tasks) \ {a} :
        a.TaskType = TaskTypeUpdate => ~SameKey(a, b)

\* ------------------------------------------------------------------ C4
\* C4: while callers race, a show has at most one incomplete ORGANIZE reminder.
C4_RacingOneOrganizePerShow ==
    \A s \in shows :
        Cardinality({t \in Incomplete(tasks) :
                        t.TVShowID = s.ID /\ t.TaskType = TaskTypeOrganize}) <= 1

\* ------------------------------------------------------------------ C5
\* C5: CompleteTask on an ORGANIZE reminder: a successful call leaves the reminder
\* completed and its show archived, a failed call changes no task and no show,
\* and no step makes only one of the two flags true.
C5_CompleteOrganizeAtomic ==
    [][/\ \A p \in Procs :
            (pc[p] = "complete_tx" /\ pc'[p] = "done"
                /\ loc[p].task[1].TaskType = TaskTypeOrganize) =>
                \/ /\ loc'[p].ret = "ok"
                   /\ \E t \in tasks' : t.ID = loc[p].arg /\ t.IsCompleted
                   /\ IsArchived(shows', loc[p].task[1].TVShowID)
                \/ /\ loc'[p].ret = "error"
                   /\ tasks' = tasks
                   /\ shows' = shows
       /\ \A p \in Procs :
            (pc[p] # "done" /\ pc'[p] = "done" /\ loc'[p].op = "CompleteTask"
                /\ loc'[p].ret # "ok") =>
                (tasks' = tasks /\ shows' = shows)
       /\ \A t \in tasks : \A u \in tasks' :
            (/\ t.TaskType = TaskTypeOrganize
             /\ u.ID = t.ID
             /\ ~t.IsCompleted
             /\ ~IsArchived(shows, t.TVShowID)) =>
                (u.IsCompleted <=> IsArchived(shows', t.TVShowID))]_vars

\* ------------------------------------------------------------------ C6
\* C6: in every state, the show of a completed ORGANIZE reminder is archived.
C6_CompletedOrganizeIsArchived ==
    \A t \in tasks :
        (t.TaskType = TaskTypeOrganize /\ t.IsCompleted) => IsArchived(shows, t.TVShowID)

\* ------------------------------------------------------------------ C7
\* C7: in every state, an ORGANIZE reminder whose show is archived is completed.
C7_ArchivedOrganizeIsCompleted ==
    \A t \in tasks :
        (t.TaskType = TaskTypeOrganize /\ IsArchived(shows, t.TVShowID)) => t.IsCompleted

\* ------------------------------------------------------------------ C8
\* C8: a successful PostponeTask leaves exactly one incomplete reminder of the
\* postponed reminder's (item, category, episode token).
C8_PostponeLeavesOne ==
    [][\A p \in Procs :
         (pc[p] = "postpone_tx" /\ pc'[p] = "done" /\ loc'[p].ret = "ok") =>
             Cardinality({t \in Incomplete(tasks') : SameKey(t, loc[p].task[1])}) = 1]_vars

\* ------------------------------------------------------------------ C9
\* C9: the reminder a successful PostponeTask inserts is created one calendar
\* day after the creation instant of the reminder it replaces.
C9_PostponeAnchoredAtCreation ==
    [][\A p \in Procs :
         (pc[p] = "postpone_tx" /\ pc'[p] = "done" /\ loc'[p].ret = "ok") =>
             \A t \in tasks' \ tasks : t.CreatedAt = AddDay(loc[p].task[1].CreatedAt)]_vars

\* ------------------------------------------------------------------ C10
\* C10: the lookup of a lifecycle call belongs to its atomic unit, so the calls
\* behave as in some serial order: when the transaction of a PostponeTask
\* commits with success, the reminder the call looked up is still in the store
\* to be replaced (in a serial order a second postpone of the same id finds no
\* reminder and fails).
C10_LookupInsideAtomicUnit ==
    [][\A p \in Procs :
         (pc[p] = "postpone_tx" /\ pc'[p] = "done" /\ loc'[p].ret = "ok") =>
             /\ GetByID(tasks, shows, loc[p].arg) # <<>>
             /\ Cardinality(tasks') = Cardinality(tasks)]_vars

\* ------------------------------------------------------------------ C11
\* C11: a lookup of S01E10 never returns a reminder stored for S01E01, and a
\* lookup of S01E01 never returns a reminder stored for S01E10, whatever style
\* (engine, legacy padded, legacy unpadded) the stored descriptions have.
C11_NoMatchBetween01And10 ==
    \A p \in Procs :
        Returned(p, "GetByShowAndEpisode", "ok") =>
            /\ loc[p].arg = 10 => loc[p].found \cap StoredFor(tasks, 1) = {}
            /\ loc[p].arg = 1 => loc[p].found \cap StoredFor(tasks, 10) = {}

\* a lookup of S01E01 has returned nothing while only unpadded legacy reminders
\* of S01E10 are stored
C11_Witness ==
    /\ Returned(1, "GetByShowAndEpisode", "ok")
    /\ loc[1].arg = 1
    /\ loc[1].found = {}
    /\ tasks # {}
    /\ \A t \in tasks : t.Description \in {StoredDescription(10, "unpadded"),
                                             StoredDescription(10, "bare")}

\* ------------------------------------------------------------------ C12
\* C12: a lookup for one episode never returns a reminder stored for another
\* episode of the same show, also when the digits of one episode number are a
\* prefix of the other's (10 and 100).
C12_NoMatchBetweenDistinctEpisodes ==
    \A p \in Procs :
        Returned(p, "GetByShowAndEpisode", "ok") =>
            \A e \in MatcherEpisodes \ {loc[p].arg} :
                loc[p].found \cap StoredFor(tasks, e) = {}

\* ------------------------------------------------------------------ C13
\* C13: a step of a SyncAll pass leaves every archived show as it is: the row
\* of a show that is archived when the step is taken, and the reminders of
\* that show, are the same after the step.
C13_SyncAllLeavesArchivedAlone ==
    [][\A p \in Procs :
         StepOf(p, "SyncAll") =>
             \A s \in shows :
                 s.IsArchived =>
                     /\ s \in shows'
                     /\ TasksOf(tasks', s.ID) = TasksOf(tasks, s.ID)]_vars

\* ------------------------------------------------------------------ C14
\* C14: once a show is archived it stays archived: no step takes is_archived
\* of a show from TRUE to FALSE.
C14_ArchivedStaysArchived ==
    [][\A s \in shows : s.IsArchived => IsArchived(shows', s.ID)]_vars

\* ------------------------------------------------------------------ C15
\* C15: a SyncAll pass never calls the provider: neither GetTVDetails nor
\* GetSeasonEpisodes is invoked by a caller that is inside SyncAll.
C15_SyncAllNeverFetches ==
    \A p \in Procs : loc[p].op = "SyncAll" => ~loc[p].fetched

\* ------------------------------------------------------------------ C16
\* C16: a successful CompleteTask on an UPDATE reminder leaves that reminder
\* completed and changes the archived flag of no show.
C16_CompleteUpdateKeepsArchived ==
    [][\A p \in Procs :
         (pc[p] = "complete_tx" /\ pc'[p] = "done" /\ loc'[p].ret = "ok"
             /\ loc[p].task[1].TaskType = TaskTypeUpdate) =>
             /\ \E t \in tasks' : t.ID = loc[p].arg /\ t.IsCompleted
             /\ shows' = shows]_vars

\* ------------------------------------------------------------------ C17
\* C17: CompleteTask and PostponeTask called with an id no reminder has return
\* the not-found error at once and change no reminder and no show.
C17_UnknownIdIsNotFound ==
    [][\A p \in Procs :
         (/\ pc[p] = "idle"
          /\ loc'[p].op \in {"CompleteTask", "PostponeTask"}
          /\ \A t \in tasks : t.ID # loc'[p].arg) =>
             /\ pc'[p] = "done"
             /\ loc'[p].ret = "notfound"
             /\ tasks' = tasks
             /\ shows' = shows]_vars

\* PostponeTask has returned not found for an id no stored reminder has, while
\* other reminders are stored
C17_Witness ==
    /\ Returned(1, "PostponeTask", "notfound")
    /\ tasks # {}
    /\ \A t \in tasks : t.ID # loc[1].arg

\* ------------------------------------------------------------------ C18
\* C18: a PostponeTask that fails, at whichever step, leaves the tasks and the
\* shows as they were: the original reminder is there, no copy was added.
C18_FailedPostponeChangesNothing ==
    [][\A p \in Procs :
         (StepOf(p, "PostponeTask") /\ pc'[p] = "done" /\ loc'[p].ret # "ok") =>
             /\ tasks' = tasks
             /\ shows' = shows
             /\ nextTaskID' = nextTaskID]_vars

\* PostponeTask has failed inside its transaction and the reminder it looked
\* up is still stored
C18_Witness ==
    /\ Returned(1, "PostponeTask", "error")
    /\ loc[1].task # <<>>
    /\ \E t \in tasks : t.ID = loc[1].arg
    /\ nextTaskID <= MaxTasks

C20_SyncAllNeverAborts ==
    [][\A p \in Procs :
         (StepOf(p, "SyncAll") /\ pc'[p] = "done") =>
             /\ pc[p] = "sync_item"
             /\ loc[p].todo = {}
             /\ loc'[p].ret = "ok"
             /\ loc'[p].result = loc[p].result]_vars

\* a SyncAll pass over two active shows has returned its counts: an error was
\* counted and a reminder was created
C20_Witness ==
    /\ Returned(1, "SyncAll", "ok")
    /\ loc[1].result.Errors >= 1
    /\ loc[1].result.UpdateTasks + loc[1].result.OrganizeTasks >= 1
    /\ Cardinality(shows) = 2

\* ------------------------------------------------------------------ C21
\* C21: every failure inside an item of a SyncAll pass is counted: a step in
\* which the show row is not written, the fetched season is not stored, or a
\* reminder is not created adds one to result.Errors.
C21_EveryFailureIsCounted ==
    [][\A p \in Procs :
         StepOf(p, "SyncAll") =>
             LET counted == loc'[p].result.Errors = loc[p].result.Errors + 1
             IN  /\ (pc[p] = "update_show"
                        /\ shows' # Update(shows, Mirror(loc[p].show[1], loc[p].doc[1])))
                        => counted
                 /\ (pc[p] = "episodes"
                        /\ \A eps \in ProviderSeasons :
                             episodes' # UpsertAll(episodes, loc[p].show[1].TMDBID, eps))
                        => counted
                 /\ (pc[p] \in {"ep_create", "organize_create"} /\ tasks' = tasks)
                        => counted]_vars

\* ------------------------------------------------------------------ C22
\* C22: in one SyncAll pass each due candidate without a matching reminder gets
\* its own UPDATE reminder: when the pass leaves checkEpisodeUpdate after it
\* created the reminder of the next-airing episode, the most-recent episode, if
\* due, has a matching reminder too.
C22_OneReminderPerCandidate ==
    [][\A p \in Procs :
         (/\ StepOf(p, "SyncAll")
          /\ pc[p] = "ep_create"
          /\ loc[p].cand = "next"
          /\ tasks' # tasks
          /\ pc'[p] = "organize_lookup") =>
             LET last == loc[p].doc[1].LastEpisodeToAir
             IN  Due(last, now) = "lookup" =>
                     GetByShowAndEpisode(tasks', shows', loc[p].show[1].ID,
                                         EpisodeIDOf(last[1])) # {}]_vars

C24_EndedGetsOneOrganize ==
    [][\A p \in Procs :
         (/\ StepOf(p, "SyncAll")
          /\ pc[p] \in {"organize_lookup", "organize_create"}
          /\ pc'[p] = "sync_item"
          /\ loc'[p].result.Errors = loc[p].result.Errors) =>
             LET show == loc[p].show[1]
                 ended == loc[p].doc[1].Status \in {"Ended", "Canceled"}
                 pending == {t \in Incomplete(tasks) :
                                t.TVShowID = show.ID /\ t.TaskType = TaskTypeOrganize}
                 created == {t \in tasks' \ tasks :
                                t.TVShowID = show.ID /\ t.TaskType = TaskTypeOrganize}
             IN  /\ (ended /\ pending = {} /\ ~IsArchived(shows, show.ID)) =>
                        (Cardinality(created) = 1 /\ tasks' = tasks \cup created)
                 /\ ~ended => tasks' = tasks]_vars

\* ------------------------------------------------------------------ C25
\* C25: a label that was set by hand is not overwritten by inference: a step of
\* a SyncAll pass leaves the ResourceTime of a show unchanged when that label
\* is one a user sent (no region infers such a label).
C25_ManualLabelIsKept ==
    [][\A p \in Procs :
         StepOf(p, "SyncAll") =>
             \A s \in shows :
                 s.ResourceTime \in ManualLabels =>
                     \E u \in shows' : u.ID = s.ID /\ u.ResourceTime = s.ResourceTime]_vars

\* ------------------------------------------------------------------ C26
\* C26: GetOrRefresh asks the provider only when no document is cached: with a
\* cached document it returns that document with wasCached = TRUE, asks no
\* provider and writes no cache row; with none cached it asks the provider,
\* and on success returns the fetched document with wasCached = FALSE and has
\* it cached.
C26_RefreshOnlyWhenNothingCached ==
    [][\A p \in Procs :
         (pc[p] = "subscribe_doc" /\ pc'[p] # pc[p]) =>
             LET failed == pc'[p] = "done" /\ loc'[p].ret = "error"
                 row == CacheGet(cache, loc[p].arg)
             IN  IF row # <<>>
                 THEN /\ cache' = cache
                      /\ ~loc'[p].fetched
                      /\ \/ failed
                         \/ /\ loc'[p].wasCached
                            /\ loc'[p].doc = <<Unmarshal(row[1])>>
                 ELSE \/ failed
                      \/ /\ loc'[p].fetched
                         /\ ~loc'[p].wasCached
                         /\ loc'[p].doc[1] \in ProviderDocs(loc[p].arg)
                         /\ CacheGet(cache', loc[p].arg) = <<Marshal(loc'[p].doc[1])>>]_vars

\* Subscribe has taken the document of an untracked catalog id from the cache
\* without asking the provider
C26_Witness ==
    /\ pc[1] = "subscribe_store"
    /\ loc[1].op = "Subscribe"
    /\ loc[1].wasCached
    /\ ~loc[1].fetched
    /\ loc[1].doc = GetCached(cache, loc[1].arg)

\* ------------------------------------------------------------------ C27
\* C27: the cache never holds two rows of one catalog id, and a successful
\* Refresh overwrites: the document GetCached returns after it is the document
\* the provider has just served.
C27_OneRowReplacedOnRefresh ==
    [][/\ \A a, b \in cache' : a.tmdb_id = b.tmdb_id => a = b
       /\ \A p \in Procs :
            (pc[p] = "idle" /\ pc'[p] = "refresh_load") =>
                /\ loc'[p].doc[1] \in ProviderDocs(loc'[p].arg)
                /\ GetCached(cache', loc'[p].arg) = loc'[p].doc]_vars

\* a Refresh has replaced the cached document of a catalog id by a different one
C27_Witness ==
    /\ pc[1] = "refresh_load"
    /\ GetCached(cache, loc[1].arg) = loc[1].doc
    /\ \E s \in shows : s.TMDBID = loc[1].arg /\ s.Status # loc[1].doc[1].Status

\* ------------------------------------------------------------------ C28
\* C28: a Refresh that fails returns the error to its caller and writes
\* nothing: RefreshShow ends with the error at once, the cache is unchanged
\* and GetCached returns for every catalog id what it returned before.
C28_FailedRefreshWritesNothing ==
    [][\A p \in Procs :
         (pc[p] = "idle" /\ pc'[p] = "done" /\ loc'[p].op = "RefreshShow") =>
             /\ loc'[p].ret = "error"
             /\ loc'[p].doc = <<>>
             /\ cache' = cache
             /\ \A id \in TMDBIDs : GetCached(cache', id) = GetCached(cache, id)]_vars

\* a RefreshShow has failed in its Refresh and the document cached before for
\* that catalog id is still returned
C28_Witness ==
    /\ Returned(1, "RefreshShow", "error")
    /\ loc[1].doc = <<>>
    /\ GetCached(cache, loc[1].arg) # <<>>

\* ------------------------------------------------------------------ C29
\* C29: the token FormatEpisodeID produces has exactly 6 characters: "S", two
\* digits, "E", two digits.
C29_TokenHasSixCharacters ==
    \A p \in Procs :
        Returned(p, "GetByShowAndEpisode", "ok") =>
            LET token == loc[p].episode
            IN  /\ Len(token) = 6
                /\ token[1] = "S"
                /\ IsDigit(token[2]) /\ IsDigit(token[3])
                /\ token[4] = "E"
                /\ IsDigit(token[5]) /\ IsDigit(token[6])

\* ------------------------------------------------------------------ C30
\* C30: the life of an ended show: when a SyncAll pass has finished, without
\* an error, an item whose cached status is Ended, that show has exactly one
\* ORGANIZE reminder; a successful CompleteTask on an ORGANIZE reminder leaves
\* its show archived; and a SyncAll pass that starts after the ORGANIZE
\* reminder of a show was completed does not take that show.
C30_EndedShowLifeCycle ==
    [][\A p \in Procs :
         /\ (/\ StepOf(p, "SyncAll")
             /\ pc[p] \in {"organize_lookup", "organize_create"}
             /\ pc'[p] = "sync_item"
             /\ loc'[p].result.Errors = loc[p].result.Errors
             /\ loc[p].doc[1].Status = "Ended") =>
                Cardinality({t \in TasksOf(tasks', loc[p].show[1].ID) :
                                t.TaskType = TaskTypeOrganize}) = 1
         /\ (/\ pc[p] = "complete_tx"
             /\ pc'[p] = "done"
             /\ loc'[p].ret = "ok"
             /\ loc[p].task[1].TaskType = TaskTypeOrganize) =>
                IsArchived(shows', loc[p].task[1].TVShowID)
         /\ (pc[p] = "idle" /\ pc'[p] = "sync_item") =>
                \A s \in loc'[p].todo :
                    ~\E t \in TasksOf(tasks, s.ID) :
                        t.TaskType = TaskTypeOrganize /\ t.IsCompleted]_vars

\* ------------------------------------------------------------------ C31
\* C31: however many times a catalog id is subscribed, one show at most is
\* stored for it; a Subscribe that starts while a show of its catalog id is
\* stored returns at once, with that show and the "already subscribed" flag
\* unless the lookup itself fails, and writes nothing.
C31_SubscribeIsIdempotent ==
    [][/\ \A a, b \in shows' : a.TMDBID = b.TMDBID => a = b
       /\ \A p \in Procs : \A s \in shows :
            (pc[p] = "idle" /\ loc'[p].op = "Subscribe" /\ loc'[p].arg = s.TMDBID) =>
                /\ pc'[p] = "done"
                /\ \/ loc'[p].ret = "error"
                   \/ loc'[p].ret = "exists" /\ loc'[p].show = <<s>>
                /\ store' = store]_vars

\* a Subscribe of a catalog id whose show is stored and archived has returned
\* the stored show, and it is still the only show of that id
C31_Witness ==
    /\ Returned(1, "Subscribe", "exists")
    /\ \E s \in shows : loc[1].show = <<s>> /\ s.IsArchived
    /\ Cardinality({s \in shows : s.TMDBID = loc[1].arg}) = 1

\* ------------------------------------------------------------------ C32
\* a reminder without the id the store gave it
Unnumbered(t) ==
    [TVShowID |-> t.TVShowID, TaskType |-> t.TaskType, Description |-> t.Description,
     IsCompleted |-> t.IsCompleted, CreatedAt |-> t.CreatedAt]

\* what a pass leaves, its reminders counted without their ids
UpToTaskIDs(st) ==
    [st EXCEPT !.tasks = {<<r, Cardinality({t \in st.tasks : Unnumbered(t) = r})>> :
                             r \in {Unnumbered(t) : t \in st.tasks}}]

RowOf(st, show) == GetShowByID(st.shows, show.ID)[1]

\* the mirrored attributes and the reminders of one show in a store, the
\* reminders counted without their ids
ItemView(st, show) ==
    [show |-> RowOf(st, show),
     tasks |-> UpToTaskIDs([st EXCEPT !.tasks = TasksOf(@, show.ID)]).tasks]

\* C33: from any store no call is working on, for any active show and any
\* statement of its reconciliation that fails in one pass, the next failure-free
\* pass leaves the show with the mirrored attributes and the reminders that two
\* failure-free passes leave, and creates no reminder of a key another reminder
\* of the show has.
C33_FailedPassIsRepaired ==
    (\A p \in Procs : pc[p] = "idle") =>
        \A s \in GetAllActive(shows) : \A fault \in Faults :
            LET failed == SyncShow(PassStart, s, fault)
                clean == SyncShow(PassStart, s, NoFault)
                repaired == SyncShow(failed, RowOf(failed, s), NoFault)
                expected == SyncShow(clean, RowOf(clean, s), NoFault)
            IN  /\ ItemView(repaired, s) = ItemView(expected, s)
                /\ \A a \in repaired.tasks \ tasks : \A b \in repaired.tasks \ {a} :
                     ~SameKey(a, b)

\* ------------------------------------------------------------------ C34
\* the reminders of category taskType a step inserts
Inserted(taskType) == {t \in tasks' : t.TaskType = taskType /\ t.ID \notin {u.ID : u \in tasks}}

\* C34: every step of a SyncAll pass raises UpdateTasks by the number of UPDATE
\* reminders it inserts and OrganizeTasks by the number of ORGANIZE reminders it
\* inserts, starting from zero, so the counts the pass returns are the numbers
\* of reminders it inserted.
C34_CountsAreInsertions ==
    [][\A p \in Procs :
         (loc'[p].op = "SyncAll" /\ (pc'[p] # pc[p] \/ loc'[p] # loc[p])) =>
             /\ loc'[p].result.UpdateTasks - loc[p].result.UpdateTasks
                    = Cardinality(Inserted(TaskTypeUpdate))
             /\ loc'[p].result.OrganizeTasks - loc[p].result.OrganizeTasks
                    = Cardinality(Inserted(TaskTypeOrganize))]_vars

\* a SyncAll pass has returned the counts 1 and 1, and the store holds an UPDATE
\* and an ORGANIZE reminder
C34_Witness ==
    /\ Returned(1, "SyncAll", "ok")
    /\ loc[1].result.UpdateTasks = 1
    /\ loc[1].result.OrganizeTasks = 1
    /\ \E t, u \in tasks : t.TaskType = TaskTypeUpdate /\ u.TaskType = TaskTypeOrganize

\* ------------------------------------------------------------------ C35
\* C35: a SyncAll pass over a library of one show counts at most one UPDATE
\* reminder and at most one ORGANIZE reminder, at every point of the pass and
\* when it returns; by C34 these counts are the reminders the pass inserted for
\* the show.
C35_AtMostOneOfEachPerItem ==
    \A p \in Procs :
        (loc[p].op = "SyncAll" /\ Cardinality(shows) <= 1) =>
            /\ loc[p].result.UpdateTasks <= 1
            /\ loc[p].result.OrganizeTasks <= 1

\* a pass has returned having created one UPDATE reminder although both
\* candidates of its show were due and neither had a reminder: the reminder of
\* the last aired episode is still missing
C35_Witness ==
    /\ Returned(1, "SyncAll", "ok")
    /\ loc[1].result.UpdateTasks = 1
    /\ \E s \in GetAllActive(shows) :
         LET doc == GetCached(cache, s.TMDBID)[1]
         IN  /\ GetCached(cache, s.TMDBID) # <<>>
             /\ Due(doc.NextEpisodeToAir, now) = "lookup"
             /\ Due(doc.LastEpisodeToAir, now) = "lookup"
             /\ Cardinality(TasksOf(tasks, s.ID)) = 1
             /\ GetByShowAndEpisode(tasks, shows, s.ID,
                                    EpisodeIDOf(doc.LastEpisodeToAir[1])) = {}

\* ------------------------------------------------------------------ C36
\* C36: when two PostponeTask calls have looked up the same reminder and one of
\* them has returned with success, leaving one incomplete reminder of its (item,
\* category, episode token), the successful return of the other leaves one too:
\* the reminder is relocated once.
C36_RacingPostponesRelocateOnce ==
    [][\A p, q \in Procs :
         (/\ p # q
          /\ pc[p] = "postpone_tx" /\ pc'[p] = "done" /\ loc'[p].ret = "ok"
          /\ Returned(q, "PostponeTask", "ok")
          /\ loc[q].task = loc[p].task
          /\ Cardinality({t \in Incomplete(tasks) : SameKey(t, loc[p].task[1])}) = 1) =>
             Cardinality({t \in Incomplete(tasks') : SameKey(t, loc[p].task[1])}) = 1]_vars

\* ------------------------------------------------------------------ C37
\* C37: when the transaction of a CompleteTask commits and the call reports
\* success, the store holds a completed reminder of the (item, category,
\* episode token) of the reminder the call looked up, whatever a PostponeTask
\* of the same id did in between.
C37_SuccessfulCompleteCompletes ==
    [][\A p \in Procs :
         (pc[p] = "complete_tx" /\ pc'[p] = "done" /\ loc'[p].ret = "ok") =>
             \E t \in tasks' : t.IsCompleted /\ SameKey(t, loc[p].task[1])]_vars

\* ------------------------------------------------------------------ C38
\* C38: no step of a RefreshShow call whose catalog id belongs to an archived
\* show inserts a reminder of that show or changes the row of that show.
C38_RefreshLeavesArchivedAlone ==
    [][\A p \in Procs : \A s \in shows :
         (StepOf(p, "RefreshShow") /\ s.TMDBID = loc[p].arg /\ s.IsArchived) =>
             /\ s \in shows'
             /\ TasksOf(tasks', s.ID) \subseteq TasksOf(tasks, s.ID)]_vars

\* ------------------------------------------------------------------ C39
\* C39: a SyncAll pass that looks up the reminder of a due episode while the
\* store holds a completed UPDATE reminder of that show and episode does not go
\* on to create one.
C39_CompletedEpisodeIsNotRecreated ==
    [][\A p \in Procs :
         (/\ loc[p].op = "SyncAll"
          /\ pc[p] = "ep_lookup"
          /\ Due(Candidate(loc[p]), now) = "lookup"
          /\ \E done \in tasks :
                /\ done.IsCompleted
                /\ done.TaskType = TaskTypeUpdate
                /\ done.TVShowID = loc[p].show[1].ID
                /\ TokenOf(done.Description) = EpisodeIDOf(Candidate(loc[p])[1])) =>
             pc'[p] # "ep_create"]_vars

\* a SyncAll pass has returned without creating anything although the last
\* aired episode of a show of its snapshot is due: the only reminder of that
\* episode is a completed one
C39_Witness ==
    /\ Returned(1, "SyncAll", "ok")
    /\ loc[1].result = SyncResult
    /\ \E s \in GetAllActive(shows) :
         /\ GetCached(cache, s.TMDBID) # <<>>
         /\ Due(GetCached(cache, s.TMDBID)[1].LastEpisodeToAir, now) = "lookup"
         /\ \E t \in tasks :
              /\ t.TVShowID = s.ID /\ t.TaskType = TaskTypeUpdate /\ t.IsCompleted
              /\ TokenOf(t.Description) =
                     EpisodeIDOf(GetCached(cache, s.TMDBID)[1].LastEpisodeToAir[1])
         /\ \A t \in TasksOf(tasks, s.ID) : t.IsCompleted

\* ------------------------------------------------------------------ C40
\* C40: a successful PostponeTask of an UPDATE reminder inserts a reminder with
\* the show, the category and the description of the one it looked up, which
\* the matcher finds for that episode; and a SyncAll pass that looks up the
\* reminder of a due episode while the store holds a relocated reminder of that
\* show and episode (its creation time is in the future) does not go on to
\* create one.
C40_PostponedEpisodeIsNotRecreated ==
    [][/\ \A p \in Procs :
            (/\ pc[p] = "postpone_tx" /\ pc'[p] = "done" /\ loc'[p].ret = "ok"
             /\ loc[p].task[1].TaskType = TaskTypeUpdate) =>
                \E copy \in tasks' :
                    /\ copy.ID \notin {t.ID : t \in tasks}
                    /\ copy.TVShowID = loc[p].task[1].TVShowID
                    /\ copy.TaskType = loc[p].task[1].TaskType
                    /\ copy.Description = loc[p].task[1].Description
                    /\ copy \in GetByShowAndEpisode(tasks', shows', copy.TVShowID,
                                                    TokenOf(copy.Description))
       /\ \A p \in Procs :
            (/\ loc[p].op = "SyncAll"
             /\ pc[p] = "ep_lookup"
             /\ Due(Candidate(loc[p]), now) = "lookup"
             /\ \E moved \in Incomplete(tasks) :
                   /\ moved.CreatedAt > now
                   /\ moved.TaskType = TaskTypeUpdate
                   /\ moved.TVShowID = loc[p].show[1].ID
                   /\ TokenOf(moved.Description) = EpisodeIDOf(Candidate(loc[p])[1])) =>
                pc'[p] # "ep_create"]_vars

\* a SyncAll pass has returned without creating anything although the last
\* aired episode of a show of its snapshot is due: the only reminder of the
\* show is the relocated one of that episode
C40_Witness ==
    /\ Returned(1, "SyncAll", "ok")
    /\ loc[1].result = SyncResult
    /\ \E s \in GetAllActive(shows) :
         /\ GetCached(cache, s.TMDBID) # <<>>
         /\ Due(GetCached(cache, s.TMDBID)[1].LastEpisodeToAir, now) = "lookup"
         /\ Cardinality(TasksOf(tasks, s.ID)) = 1
         /\ \E t \in Incomplete(tasks) :
              /\ t.TVShowID = s.ID /\ t.TaskType = TaskTypeUpdate
              /\ t.CreatedAt > now
              /\ TokenOf(t.Description) =
                     EpisodeIDOf(GetCached(cache, s.TMDBID)[1].LastEpisodeToAir[1])

====
